---- MODULE Spec2Model ----
(***************************************************************************)
(* md-todo backend: the Todo domain model (validation and mutation        *)
(* helpers), the two TodoRepositoryTrait implementations and the five     *)
(* HTTP handlers of src/backend/src/lib.rs.                                *)
(***************************************************************************)
EXTENDS Integers, Sequences, FiniteSets, TLC

(***************************************************************************)
(* Strings.  A Rust String is modelled run-length encoded: a sequence of   *)
(* runs [ch, n], n >= 1 copies of the character ch, adjacent runs holding  *)
(* different characters.  "a".repeat(256) is <<[ch |-> "a", n |-> 256]>>.  *)
(* Characters are named; each has its UTF-8 width and its White_Space      *)
(* property, which is what str::len and str::trim read.                    *)
(***************************************************************************)

\* 'a', 'b': ASCII letters; SP: ' ' (U+0020); NL: '\n' (U+000A);
\* E_ACUTE: U+00E9; IDEO_SP: U+3000 ideographic space; ROCKET: U+1F680.
Chars == {"a", "b", "SP", "NL", "E_ACUTE", "IDEO_SP", "ROCKET"}

\* char::len_utf8
Utf8Len(ch) ==
  CASE ch \in {"a", "b", "SP", "NL"} -> 1
    [] ch = "E_ACUTE" -> 2
    [] ch = "IDEO_SP" -> 3
    [] ch = "ROCKET" -> 4

\* char::is_whitespace (Unicode White_Space)
IsWhitespace(ch) == ch \in {"SP", "NL", "IDEO_SP"}

\* The string made of n copies of ch ("" when n = 0).
Str(ch, n) == IF n = 0 THEN <<>> ELSE <<[ch |-> ch, n |-> n]>>

\* str::len: the length in BYTES of the UTF-8 encoding.
RECURSIVE StrLen(_)
StrLen(s) ==
  IF s = <<>> THEN 0
  ELSE s[1].n * Utf8Len(s[1].ch) + StrLen(Tail(s))

\* str::chars().count(): the number of characters.
RECURSIVE CharCount(_)
CharCount(s) == IF s = <<>> THEN 0 ELSE s[1].n + CharCount(Tail(s))

\* str::trim_start / str::trim_end / str::trim
RECURSIVE TrimStart(_)
TrimStart(s) ==
  IF s = <<>> THEN <<>>
  ELSE IF IsWhitespace(s[1].ch) THEN TrimStart(Tail(s)) ELSE s

RECURSIVE TrimEnd(_)
TrimEnd(s) ==
  IF s = <<>> THEN <<>>
  ELSE IF IsWhitespace(s[Len(s)].ch) THEN TrimEnd(SubSeq(s, 1, Len(s) - 1)) ELSE s

Trim(s) == TrimEnd(TrimStart(s))

\* str::is_empty
IsEmpty(s) == s = <<>>

\* str::contains(char)
Contains(s, ch) == \E i \in 1..Len(s) : s[i].ch = ch

(***************************************************************************)
(* Result<(), String> and Option<T>.                                       *)
(***************************************************************************)
Ok == "Ok"
ErrTitleEmpty == "Title cannot be empty"
ErrTitleTooLong == "Title cannot exceed 255 characters"
ErrTitleNewline == "Title cannot contain newlines"
ErrContentTooLong == "Content cannot exceed 10000 characters"

None == <<>>
Some(x) == <<x>>
IsSome(o) == o # <<>>
Unwrap(o) == o[1]

(***************************************************************************)
(* Todo validation (impl Todo).                                            *)
(***************************************************************************)
MaxTitleLen == 255
MaxContentLen == 10000

\* Mutant of validate_title: the length is checked before the blank title.
validate_title_length_first(title) ==
  LET trimmed == Trim(title) IN
    IF StrLen(title) > MaxTitleLen THEN ErrTitleTooLong
    ELSE IF IsEmpty(trimmed) THEN ErrTitleEmpty
    ELSE IF Contains(title, "NL") THEN ErrTitleNewline
    ELSE Ok

validate_title(title) ==
  LET trimmed == Trim(title) IN
    IF IsEmpty(trimmed) THEN ErrTitleEmpty
    ELSE IF StrLen(title) > MaxTitleLen THEN ErrTitleTooLong
    ELSE IF Contains(title, "NL") THEN ErrTitleNewline
    ELSE Ok

validate_content(content) ==
  IF StrLen(content) > MaxContentLen THEN ErrContentTooLong ELSE Ok

\* Todo::is_valid
is_valid(self) ==
  IF validate_title(self.title) # Ok THEN validate_title(self.title)
  ELSE validate_content(self.content)

(***************************************************************************)
(* State.                                                                  *)
(***************************************************************************)
VARIABLES
  steps,        \* how many requests and environment steps have been taken
  clock,        \* Utc::now(): the wall clock, non-decreasing
  next_id,      \* Uuid::now_v7(): ids are handed out in increasing order
  todo,         \* a Todo value, the receiver of the impl Todo methods
  call,         \* the last impl Todo call: arguments, time, result, receiver before
  repo,         \* which TodoRepositoryTrait implementation the router holds
  todos,        \* MockTodoRepository.todos: the Vec<Todo>
  rows,         \* DatabaseTodoRepository: the rows of table todos
  should_fail,  \* MockTodoRepository.should_fail / the pool answers sqlx::Error
  resp,         \* the last HTTP exchange: handler, id, repository calls, response
  created,      \* history: id -> the todo a POST answered, until a PATCH/DELETE of it succeeds
  deleted,      \* history: the ids a DELETE has answered 204 for
  inflight,     \* the requests being served concurrently: each one's handler, position and locals
  answers       \* what the callers that wait for an answer received: the two repositories' results, each connection's status

vars == <<steps, clock, next_id, todo, call, repo, todos, rows, should_fail, resp, created, deleted,
          inflight, answers>>
domainVars == <<todo, call>>
httpVars == <<repo, todos, rows, should_fail, resp, created, deleted>>
driverVars == <<inflight, answers>>

\* Bounds of the model: the clock, the ids, the runs of a string; the
\* requests and environment steps of the HTTP service and of the router, and
\* the calls and environment steps of the specifications of the repositories.
MaxClock == 1
MaxIds == 2
MaxRuns == 2
MaxRequests == 4
MaxRouted == 3
MaxSteps == 5

(***************************************************************************)
(* impl Todo: construction and mutation.                                   *)
(***************************************************************************)
\* Mutant of Todo::new: Uuid::nil() in place of Uuid::now_v7().
Todo_new_nil_id(title, content, id, now) ==
  [id |-> 0, title |-> title, content |-> content, completed |-> FALSE,
   created_at |-> now, updated_at |-> now]

\* Todo::new, with id the value of Uuid::now_v7() and now that of Utc::now()
Todo_new(title, content, id, now) ==
  [id |-> id, title |-> title, content |-> content, completed |-> FALSE,
   created_at |-> now, updated_at |-> now]

\* Todo::new_with_validation: the Result, an error or the todo built
new_with_validation(title, content, id, now) ==
  IF validate_title(title) # Ok
    THEN [result |-> validate_title(title), todo |-> None]
  ELSE IF validate_content(content) # Ok
    THEN [result |-> validate_content(content), todo |-> None]
  ELSE [result |-> Ok, todo |-> Some(Todo_new(title, content, id, now))]

\* Mutant of update_with_validation: each field is validated and assigned in
\* turn, so a content error leaves an already assigned title behind.
update_with_validation_interleaved(self, title, content, completed, now) ==
  LET vt == IF IsSome(title) THEN validate_title(Unwrap(title)) ELSE Ok
      vc == IF IsSome(content) THEN validate_content(Unwrap(content)) ELSE Ok
      t1 == IF IsSome(title) THEN [self EXCEPT !.title = Unwrap(title)] ELSE self
  IN  IF vt # Ok THEN [result |-> vt, todo |-> self]
      ELSE IF vc # Ok THEN [result |-> vc, todo |-> t1]
      ELSE [result |-> Ok,
            todo |-> [t1 EXCEPT
                        !.content = IF IsSome(content) THEN Unwrap(content) ELSE @,
                        !.completed = IF IsSome(completed) THEN Unwrap(completed) ELSE @,
                        !.updated_at = now]]

\* Todo::update_with_validation: the returned Result and the receiver afterwards
update_with_validation(self, title, content, completed, now) ==
  LET vt == IF IsSome(title) THEN validate_title(Unwrap(title)) ELSE Ok
      vc == IF IsSome(content) THEN validate_content(Unwrap(content)) ELSE Ok
  IN  IF vt # Ok THEN [result |-> vt, todo |-> self]
      ELSE IF vc # Ok THEN [result |-> vc, todo |-> self]
      ELSE [result |-> Ok,
            todo |-> [self EXCEPT
                        !.title = IF IsSome(title) THEN Unwrap(title) ELSE @,
                        !.content = IF IsSome(content) THEN Unwrap(content) ELSE @,
                        !.completed = IF IsSome(completed) THEN Unwrap(completed) ELSE @,
                        !.updated_at = now]]

\* Todo::update_title / Todo::update_content
update_title(self, title, now) == [self EXCEPT !.title = title, !.updated_at = now]
update_content(self, content, now) == [self EXCEPT !.content = content, !.updated_at = now]

\* Mutant of toggle_completed: the flag is set instead of negated.
toggle_completed_sets(self, now) == [self EXCEPT !.completed = TRUE, !.updated_at = now]

\* Todo::toggle_completed
toggle_completed(self, now) == [self EXCEPT !.completed = ~@, !.updated_at = now]

(***************************************************************************)
(* Requests, responses and repository results.                             *)
(***************************************************************************)
\* UpdateTodoRequest { title, content, completed }, each an Option
UpdateTodoRequest(title, content, completed) ==
  [title |-> title, content |-> content, completed |-> completed]

\* CreateTodoRequest { title, content }
CreateTodoRequest(title, content) == [title |-> title, content |-> content]

\* Mutant of CreateTodoRequest::validate: the content is not checked.
CreateTodoRequest_validate_title_only(self) == validate_title(self.title)

\* CreateTodoRequest::validate
CreateTodoRequest_validate(self) ==
  IF validate_title(self.title) # Ok THEN validate_title(self.title)
  ELSE validate_content(self.content)

\* Mutant of UpdateTodoRequest::validate: the content is not checked.
UpdateTodoRequest_validate_title_only(self) ==
  IF IsSome(self.title) /\ validate_title(Unwrap(self.title)) # Ok
    THEN validate_title(Unwrap(self.title))
  ELSE Ok

\* UpdateTodoRequest::validate
UpdateTodoRequest_validate(self) ==
  IF IsSome(self.title) /\ validate_title(Unwrap(self.title)) # Ok
    THEN validate_title(Unwrap(self.title))
  ELSE IF IsSome(self.content) /\ validate_content(Unwrap(self.content)) # Ok
    THEN validate_content(Unwrap(self.content))
  ELSE Ok

\* ApiResponse::success / ApiResponse::error
ApiResponse_success(data) == [success |-> TRUE, data |-> Some(data), error |-> None]
ApiResponse_error(message) == [success |-> FALSE, data |-> None, error |-> Some(message)]

\* StatusCode
OK == 200
NO_CONTENT == 204
BAD_REQUEST == 400
NOT_FOUND == 404
INTERNAL_SERVER_ERROR == 500

\* Result<T, TodoError> of a repository method, with the store it leaves
RepoOk(val, store) == [ok |-> TRUE, val |-> val, store |-> store]
RepoErr(store) == [ok |-> FALSE, val |-> None, store |-> store]

\* What the caller of a repository method gets: the Result without the store
Answer(r) == [ok |-> r.ok, val |-> r.val]

(***************************************************************************)
(* MockTodoRepository (tests/integration_test.rs): a Vec<Todo>.            *)
(***************************************************************************)
\* iter().position(|t| t.id == id): the first index holding id, 0 when none
Position(vec, id) ==
  IF \E i \in 1..Len(vec) : vec[i].id = id
  THEN CHOOSE i \in 1..Len(vec) :
         vec[i].id = id /\ \A j \in 1..(i - 1) : vec[j].id # id
  ELSE 0

\* Vec::remove(pos)
Remove(vec, pos) == SubSeq(vec, 1, pos - 1) \o SubSeq(vec, pos + 1, Len(vec))

Mock_create_todo(vec, fail, t) ==
  IF fail THEN RepoErr(vec) ELSE RepoOk(t, Append(vec, t))

Mock_get_all_todos(vec, fail) ==
  IF fail THEN RepoErr(vec) ELSE RepoOk(vec, vec)

Mock_get_todo_by_id(vec, fail, id) ==
  IF fail THEN RepoErr(vec)
  ELSE LET pos == Position(vec, id) IN
         RepoOk(IF pos = 0 THEN None ELSE Some(vec[pos]), vec)

\* Mutant of update_todo: an omitted content or flag is stored as its default
\* (unwrap_or_default), so a PATCH wipes what another one has just written.
Mock_update_todo_or_default(vec, fail, id, updates, now) ==
  IF fail THEN RepoErr(vec)
  ELSE LET pos == Position(vec, id) IN
         IF pos = 0 THEN RepoOk(None, vec)
         ELSE LET u == [vec[pos] EXCEPT
                           !.title = IF IsSome(updates.title)
                                     THEN Unwrap(updates.title) ELSE @,
                           !.content = IF IsSome(updates.content)
                                       THEN Unwrap(updates.content) ELSE <<>>,
                           !.completed = IF IsSome(updates.completed)
                                         THEN Unwrap(updates.completed) ELSE FALSE,
                           !.updated_at = now]
              IN  RepoOk(Some(u), [vec EXCEPT ![pos] = u])

Mock_update_todo(vec, fail, id, updates, now) ==
  IF fail THEN RepoErr(vec)
  ELSE LET pos == Position(vec, id) IN
         IF pos = 0 THEN RepoOk(None, vec)
         ELSE LET u == [vec[pos] EXCEPT
                           !.title = IF IsSome(updates.title)
                                     THEN Unwrap(updates.title) ELSE @,
                           !.content = IF IsSome(updates.content)
                                       THEN Unwrap(updates.content) ELSE @,
                           !.completed = IF IsSome(updates.completed)
                                         THEN Unwrap(updates.completed) ELSE @,
                           !.updated_at = now]
              IN  RepoOk(Some(u), [vec EXCEPT ![pos] = u])

\* Mutant of delete_todo: deleting is idempotent, a missing id is Ok(true).
Mock_delete_todo_idempotent(vec, fail, id) ==
  IF fail THEN RepoErr(vec)
  ELSE LET pos == Position(vec, id) IN
         IF pos = 0 THEN RepoOk(TRUE, vec) ELSE RepoOk(TRUE, Remove(vec, pos))

Mock_delete_todo(vec, fail, id) ==
  IF fail THEN RepoErr(vec)
  ELSE LET pos == Position(vec, id) IN
         IF pos = 0 THEN RepoOk(FALSE, vec) ELSE RepoOk(TRUE, Remove(vec, pos))

(***************************************************************************)
(* DatabaseTodoRepository: table todos, a set of rows.  `fail` stands for  *)
(* the pool answering sqlx::Error to the statement (the map_err branch);   *)
(* a failed statement changes no row.                                      *)
(***************************************************************************)
\* INSERT INTO todos ... VALUES ... RETURNING, with no ON CONFLICT clause: the
\* row is added, whatever rows the table holds, and returned.  The statement
\* that creates the table is not among the sources: a database that rejects
\* the row (a second one for an id, if the table has a key) answers
\* sqlx::Error, which is `fail`.
Db_create_todo(table, fail, t) ==
  IF fail THEN RepoErr(table)
  ELSE RepoOk(t, table \cup {t})

\* Mutant of ORDER BY created_at DESC: ascending, the oldest row first.
OrderByCreatedAtAsc(table) ==
  {s \in [1..Cardinality(table) -> table] :
     /\ \A i, j \in DOMAIN s : i # j => s[i] # s[j]
     /\ \A i, j \in DOMAIN s : i < j => s[i].created_at <= s[j].created_at}

\* The sequences ORDER BY created_at DESC may return: ties in any order
OrderByCreatedAtDesc(table) ==
  {s \in [1..Cardinality(table) -> table] :
     /\ \A i, j \in DOMAIN s : i # j => s[i] # s[j]
     /\ \A i, j \in DOMAIN s : i < j => s[i].created_at >= s[j].created_at}

\* SELECT ... FROM todos ORDER BY created_at DESC: the possible results
Db_get_all_todos(table, fail) ==
  IF fail THEN {RepoErr(table)}
  ELSE {RepoOk(s, table) : s \in OrderByCreatedAtDesc(table)}

\* Mutant of get_todo_by_id: the WHERE clause is missing, any row is fetched.
Db_get_todo_by_id_no_where(table, fail, id) ==
  IF fail THEN RepoErr(table)
  ELSE IF table # {}
       THEN RepoOk(Some(CHOOSE r \in table : \A q \in table : r.id >= q.id), table)
       ELSE RepoOk(None, table)

\* SELECT ... WHERE id = $1, fetch_optional
Db_get_todo_by_id(table, fail, id) ==
  IF fail THEN RepoErr(table)
  ELSE IF \E r \in table : r.id = id
       THEN RepoOk(Some(CHOOSE r \in table : r.id = id), table)
       ELSE RepoOk(None, table)

\* Mutant of COALESCE: the arguments are swapped, the column always wins.
COALESCE_swapped(param, column) == column

\* SQL COALESCE(param, column): the bound parameter unless it is NULL
COALESCE(param, column) == IF IsSome(param) THEN Unwrap(param) ELSE column

\* Mutant of update_todo: an upsert, a missing row is inserted.
Db_update_todo_upsert(table, fail, id, updates, now) ==
  IF fail THEN RepoErr(table)
  ELSE LET old == IF \E r \in table : r.id = id
                  THEN CHOOSE r \in table : r.id = id
                  ELSE Todo_new(Str("", 0), Str("", 0), id, now)
           u == [old EXCEPT
                   !.title = COALESCE(updates.title, @),
                   !.content = COALESCE(updates.content, @),
                   !.completed = COALESCE(updates.completed, @),
                   !.updated_at = now]
       IN  RepoOk(Some(u), (table \ {old}) \cup {u})

\* UPDATE todos SET title = COALESCE($2, title), ... WHERE id = $1 RETURNING
Db_update_todo(table, fail, id, updates, now) ==
  IF fail THEN RepoErr(table)
  ELSE IF \E r \in table : r.id = id
       THEN LET old == CHOOSE r \in table : r.id = id
                u == [old EXCEPT
                        !.title = COALESCE(updates.title, @),
                        !.content = COALESCE(updates.content, @),
                        !.completed = COALESCE(updates.completed, @),
                        !.updated_at = now]
            IN  RepoOk(Some(u), (table \ {old}) \cup {u})
       ELSE RepoOk(None, table)

\* Mutant of delete_todo: rows_affected() >= 0, a miss is reported as a hit.
Db_delete_todo_always_true(table, fail, id) ==
  IF fail THEN RepoErr(table)
  ELSE RepoOk(TRUE, table \ {r \in table : r.id = id})

\* DELETE FROM todos WHERE id = $1; rows_affected() > 0
Db_delete_todo(table, fail, id) ==
  IF fail THEN RepoErr(table)
  ELSE LET hit == {r \in table : r.id = id} IN
         RepoOk(hit # {}, table \ hit)

(***************************************************************************)
(* The router's state: Arc<R> for one of the two repositories.             *)
(***************************************************************************)
\* The stored todos as a set
StoredTodos == IF repo = "mock" THEN {todos[i] : i \in 1..Len(todos)} ELSE rows

(***************************************************************************)
(* Tasks.  The router serves each request in a task of its own; a task     *)
(* runs without interruption up to an .await, where the tasks interleave.  *)
(* A request that passes validation has these steps:                       *)
(*   begin    the handler up to the repository call: validation,           *)
(*            Todo::new for a POST (Utc::now() and Uuid::now_v7()), and    *)
(*            for the database the binding of the statement's parameters,  *)
(*            Utc::now() among them for a PATCH;                           *)
(*   check    (mock) should_fail.read().await and the test of the flag;    *)
(*   execute  (mock) todos.read().await or todos.write().await and the     *)
(*            code under the lock, then the handler's match on the result, *)
(*            which has no .await; (database) the statement, which the     *)
(*            server runs atomically while the task waits at               *)
(*            .fetch_*(&self.pool).await or .execute(&self.pool).await;    *)
(*   return   (database) the task is resumed with the statement's result,  *)
(*            the method returns and the handler matches on it.            *)
(* A repository method called directly, not through a handler, has the     *)
(* same steps without the handler's part.                                  *)
(***************************************************************************)
\* The connections that requests arrive on
Clients == {"c1", "c2"}

NoRequest == UpdateTodoRequest(None, None, None)

\* The result a task waits for
NoResult == [ok |-> FALSE, val |-> None]

\* A task: the handler it runs, the id it carries (of the path; of the todo
\* built, for a POST), the body, where it stands, the time it read and, once
\* it is done, the status it answered; what its client had been answered
\* about the id when the request was sent (hist), and the result of its
\* statement while the database has run it and the task is not yet resumed
Task(op, id, request, pc, now, status) ==
  [op |-> op, id |-> id, request |-> request, pc |-> pc, now |-> now, status |-> status,
   hist |-> "none", result |-> NoResult]
Idle == Task("none", 0, NoRequest, "idle", 0, 0)

\* The repository a task calls: a request reaches the repository of the
\* router; a direct call is filed under the name of the repository it is on
On(c) == IF c \in Clients THEN repo ELSE c

\* The todo a POST has built
TodoOf(t) == Todo_new(Unwrap(t.request.title), Unwrap(t.request.content), t.id, t.now)

\* The trait method each handler calls
RepoMethod(op) ==
  CASE op = "get_todos" -> "get_all_todos"
    [] op = "create_todo" -> "create_todo"
    [] op = "get_todo" -> "get_todo_by_id"
    [] op = "update_todo" -> "update_todo"
    [] op = "delete_todo" -> "delete_todo"

\* The argument of the repository call of a task
Arg(t) ==
  CASE t.op = "get_todos" -> None
    [] t.op = "create_todo" -> TodoOf(t)
    [] OTHER -> t.id

\* repository.create_todo(&todo) and the other trait methods on the mock,
\* with the flag as the check read it and the time under the lock
Mock_call(t, vec, fail, now) ==
  CASE t.op = "get_todos" -> Mock_get_all_todos(vec, fail)
    [] t.op = "create_todo" -> Mock_create_todo(vec, fail, TodoOf(t))
    [] t.op = "get_todo" -> Mock_get_todo_by_id(vec, fail, t.id)
    [] t.op = "update_todo" -> Mock_update_todo(vec, fail, t.id, t.request, now)
    [] t.op = "delete_todo" -> Mock_delete_todo(vec, fail, t.id)

\* The same on the database, with the parameters the task bound: the
\* results the statement may have
Db_call(t, table, fail) ==
  CASE t.op = "get_todos" -> Db_get_all_todos(table, fail)
    [] t.op = "create_todo" -> {Db_create_todo(table, fail, TodoOf(t))}
    [] t.op = "get_todo" -> {Db_get_todo_by_id(table, fail, t.id)}
    [] t.op = "update_todo" -> {Db_update_todo(table, fail, t.id, t.request, t.now)}
    [] t.op = "delete_todo" -> {Db_delete_todo(table, fail, t.id)}

(***************************************************************************)
(* HTTP handlers.  A handler's Ok(Json(body)) is status 200 with the       *)
(* envelope as body; Err(status) and Ok(StatusCode::NO_CONTENT) are a bare *)
(* status with no body.                                                    *)
(***************************************************************************)
\* One more request, call or environment step
Step == steps' = steps + 1

\* One exchange: the handler, the id of the path and the JSON body of the
\* request, the response's status and body, and the repository calls made.
Exchange(op, id, request, status, body, calls) ==
  [op |-> op, id |-> id, request |-> request, status |-> status, body |-> body,
   calls |-> calls]

RepoCall(method, r) == [method |-> method, ok |-> r.ok, val |-> r.val]

\* What a handler answers: a status and, with 200, a body
Answers(status, body) == [status |-> status, body |-> body]

\* Mutant of get_todos: a repository error is answered with an empty list.
get_todos_swallow_error(r) ==
  Answers(OK, Some(ApiResponse_success(IF r.ok THEN r.val ELSE <<>>)))

\* GET /api/todos: the match on the result of get_all_todos
get_todos_response(r) ==
  IF r.ok THEN Answers(OK, Some(ApiResponse_success(r.val)))
  ELSE Answers(INTERNAL_SERVER_ERROR, None)

\* POST /api/todos: the match on the result of create_todo
create_todo_response(r) ==
  IF r.ok THEN Answers(OK, Some(ApiResponse_success(r.val)))
  ELSE Answers(INTERNAL_SERVER_ERROR, None)

\* GET /api/todos/:id: the match on the result of get_todo_by_id
get_todo_response(r) ==
  IF r.ok /\ IsSome(r.val) THEN Answers(OK, Some(ApiResponse_success(Unwrap(r.val))))
  ELSE IF r.ok THEN Answers(NOT_FOUND, None)
  ELSE Answers(INTERNAL_SERVER_ERROR, None)

\* PATCH /api/todos/:id: the match on the result of update_todo
update_todo_response(r) ==
  IF r.ok /\ IsSome(r.val) THEN Answers(OK, Some(ApiResponse_success(Unwrap(r.val))))
  ELSE IF r.ok THEN Answers(NOT_FOUND, None)
  ELSE Answers(INTERNAL_SERVER_ERROR, None)

\* DELETE /api/todos/:id: the match on the result of delete_todo
delete_todo_response(r) ==
  IF r.ok /\ r.val THEN Answers(NO_CONTENT, None)
  ELSE IF r.ok THEN Answers(NOT_FOUND, None)
  ELSE Answers(INTERNAL_SERVER_ERROR, None)

\* The handler's match on the result of its repository call
Response(op, r) ==
  CASE op = "get_todos" -> get_todos_response(r)
    [] op = "create_todo" -> create_todo_response(r)
    [] op = "get_todo" -> get_todo_response(r)
    [] op = "update_todo" -> update_todo_response(r)
    [] op = "delete_todo" -> delete_todo_response(r)

\* The id in the path of a task's request
PathId(t) == IF t.op = "create_todo" THEN 0 ELSE t.id

\* What the clients have been answered about the id of a request
History(t) ==
  IF PathId(t) \in deleted THEN "deleted"
  ELSE IF PathId(t) \in DOMAIN created THEN "created"
  ELSE "none"

\* A task may begin on a connection that is serving no request
Begin(c, t) ==
  /\ inflight[c].pc = "idle"
  /\ inflight' = [inflight EXCEPT ![c] = [t EXCEPT !.hist = History(t)]]

\* The history `created` once the call of task t has returned r: a PATCH or
\* DELETE that succeeds ends the record of the todo a POST answered
Forget(t, r) ==
  IF /\ t.id \in DOMAIN created
     /\ r.ok
     /\ \/ t.op = "update_todo" /\ IsSome(r.val)
        \/ t.op = "delete_todo" /\ r.val
  THEN [i \in DOMAIN created \ {t.id} |-> created[i]]
  ELSE created

\* What task t was answered is kept for the callers that `answers` follows
Keep(c, t) == IF c \in DOMAIN answers THEN [answers EXCEPT ![c] = t] ELSE answers

\* return Err(StatusCode::BAD_REQUEST): the handler answers before any .await
Refuse(c, op, id, request) ==
  /\ inflight[c].pc = "idle"
  /\ resp' = Exchange(op, id, request, BAD_REQUEST, None, <<>>)
  /\ answers' = Keep(c, Task(op, id, request, "done", 0, BAD_REQUEST))
  /\ UNCHANGED inflight

\* The repository call of task c has returned r: a handler answers, a direct
\* call hands the result to its caller.  The histories follow the answer:
\* the todo a POST answers is recorded while it is stored as answered (in the
\* database a PATCH or DELETE may have run between the INSERT and the answer).
Finish(c, r, now) ==
  LET t == inflight[c]
      a == Response(t.op, r)
      stored == IF On(c) = "mock" THEN {r.store[i] : i \in 1..Len(r.store)} ELSE r.store
  IN  /\ inflight' = [inflight EXCEPT ![c] = Idle]
      /\ IF c \in Clients
         THEN /\ resp' = Exchange(t.op, PathId(t), t.request, a.status, a.body,
                                  <<RepoCall(RepoMethod(t.op), r)>>)
              /\ created' =
                   IF t.op = "create_todo" /\ a.status = OK
                     THEN IF r.val \in stored THEN (r.val.id :> r.val) @@ created
                          ELSE created
                   ELSE Forget(t, r)
              /\ deleted' = IF t.op = "delete_todo" /\ a.status = NO_CONTENT
                            THEN deleted \cup {t.id} ELSE deleted
              /\ answers' = Keep(c, [t EXCEPT !.pc = "done", !.now = now,
                                              !.status = a.status])
         ELSE /\ answers' = [method |-> RepoMethod(t.op), arg |-> Arg(t)] @@
                              [answers EXCEPT ![c] = Answer(r)]
              /\ UNCHANGED <<resp, created, deleted>>

\* GET /api/todos, up to the .await of repository.get_all_todos
get_todos(c) ==
  /\ Step
  /\ Begin(c, Task("get_todos", 0, NoRequest, "call", 0, 0))
  /\ UNCHANGED <<clock, next_id, domainVars, httpVars, answers>>

\* POST /api/todos, up to the .await of repository.create_todo
create_todo(c, title, content) ==
  LET request == CreateTodoRequest(title, content)
      shown == UpdateTodoRequest(Some(title), Some(content), None)
  IN  Step /\
      IF CreateTodoRequest_validate(request) # Ok
      THEN /\ Refuse(c, "create_todo", 0, shown)
           /\ UNCHANGED <<clock, next_id, domainVars, repo, todos, rows, should_fail,
                          created, deleted>>
      ELSE /\ next_id <= MaxIds
           /\ Begin(c, Task("create_todo", next_id, shown, "call", clock, 0))
           /\ next_id' = next_id + 1
           /\ UNCHANGED <<clock, domainVars, httpVars, answers>>

\* GET /api/todos/:id, up to the .await of repository.get_todo_by_id
get_todo(c, id) ==
  /\ Step
  /\ Begin(c, Task("get_todo", id, NoRequest, "call", 0, 0))
  /\ UNCHANGED <<clock, next_id, domainVars, httpVars, answers>>

\* Mutant of update_todo: the todo is looked up before the body is validated.
update_todo_lookup_first(c, id, request) ==
  Step /\
  IF ~\E t \in StoredTodos : t.id = id
  THEN /\ inflight[c].pc = "idle"
       /\ resp' = Exchange("update_todo", id, request, NOT_FOUND, None,
                           <<[method |-> "get_todo_by_id", ok |-> TRUE, val |-> None]>>)
       /\ UNCHANGED <<clock, next_id, domainVars, repo, todos, rows, should_fail,
                      created, deleted, driverVars>>
  ELSE IF UpdateTodoRequest_validate(request) # Ok
  THEN /\ Refuse(c, "update_todo", id, request)
       /\ UNCHANGED <<clock, next_id, domainVars, repo, todos, rows, should_fail,
                      created, deleted>>
  ELSE /\ Begin(c, Task("update_todo", id, request, "call",
                        IF On(c) = "db" THEN clock ELSE 0, 0))
       /\ UNCHANGED <<clock, next_id, domainVars, httpVars, answers>>

\* PATCH /api/todos/:id, up to the .await of repository.update_todo; the
\* database repository binds Utc::now() before its statement is awaited
update_todo(c, id, request) ==
  Step /\
  IF UpdateTodoRequest_validate(request) # Ok
  THEN /\ Refuse(c, "update_todo", id, request)
       /\ UNCHANGED <<clock, next_id, domainVars, repo, todos, rows, should_fail,
                      created, deleted>>
  ELSE /\ Begin(c, Task("update_todo", id, request, "call",
                        IF On(c) = "db" THEN clock ELSE 0, 0))
       /\ UNCHANGED <<clock, next_id, domainVars, httpVars, answers>>

\* DELETE /api/todos/:id, up to the .await of repository.delete_todo
delete_todo(c, id) ==
  /\ Step
  /\ Begin(c, Task("delete_todo", id, NoRequest, "call", 0, 0))
  /\ UNCHANGED <<clock, next_id, domainVars, httpVars, answers>>

\* MockTodoRepository: if *self.should_fail.read().await { return Err(..) },
\* and with Err the handler's match
Mock_check(c) ==
  /\ On(c) = "mock"
  /\ inflight[c].pc = "call"
  /\ IF should_fail
     THEN Finish(c, Mock_call(inflight[c], todos, TRUE, clock), inflight[c].now)
     ELSE /\ inflight' = [inflight EXCEPT ![c] = [@ EXCEPT !.pc = "lock"]]
          /\ UNCHANGED <<resp, created, deleted, answers>>
  /\ UNCHANGED <<steps, clock, next_id, domainVars, repo, todos, rows, should_fail>>

\* MockTodoRepository: self.todos.read().await or self.todos.write().await
\* and the code under the lock (Utc::now() for an update), then the
\* handler's match
Mock_execute(c) ==
  LET t == inflight[c]
      r == Mock_call(t, todos, FALSE, clock)
  IN  /\ On(c) = "mock"
      /\ t.pc = "lock"
      /\ todos' = r.store
      /\ Finish(c, r, IF t.op = "create_todo" THEN t.now ELSE clock)
      /\ UNCHANGED <<steps, clock, next_id, domainVars, repo, rows, should_fail>>

\* DatabaseTodoRepository: the server runs the statement, with the
\* parameters bound at the beginning, while the task waits at
\* .fetch_one / .fetch_all / .fetch_optional / .execute(&self.pool).await
Db_execute(c) ==
  LET t == inflight[c] IN
    /\ On(c) = "db"
    /\ t.pc = "call"
    /\ \E r \in Db_call(t, rows, should_fail) :
         /\ rows' = r.store
         /\ inflight' = [inflight EXCEPT ![c] = [t EXCEPT !.pc = "reply",
                                                          !.result = Answer(r)]]
         /\ created' = Forget(t, r)
    /\ UNCHANGED <<steps, clock, next_id, domainVars, repo, todos, should_fail,
                   resp, deleted, answers>>

\* DatabaseTodoRepository: the task is resumed with the result of its
\* statement, the method returns it, then the handler's match
Db_return(c) ==
  LET t == inflight[c] IN
    /\ On(c) = "db"
    /\ t.pc = "reply"
    /\ Finish(c, [ok |-> t.result.ok, val |-> t.result.val, store |-> rows], t.now)
    /\ UNCHANGED <<steps, clock, next_id, domainVars, repo, todos, rows, should_fail>>

\* MockTodoRepository::set_should_fail; for the database, the pool starts or
\* stops answering errors.
set_should_fail(fail) ==
  /\ Step
  /\ should_fail # fail
  /\ should_fail' = fail
  /\ UNCHANGED <<clock, next_id, domainVars, driverVars,
                 repo, todos, rows, resp, created, deleted>>

\* Time passes: Utc::now() does not go back.
Tick ==
  /\ Step
  /\ clock < MaxClock
  /\ clock' = clock + 1
  /\ UNCHANGED <<next_id, domainVars, httpVars, driverVars>>

(***************************************************************************)
(* Inputs.                                                                 *)
(***************************************************************************)
\* The run-length strings of at most MaxRuns runs over chars and counts
Runs(chars, counts) == [ch : chars, n : counts]
StringsOf(chars, counts) ==
  UNION {{s \in [1..k -> Runs(chars, counts)] :
            \A i \in 1..(k - 1) : s[i].ch # s[i + 1].ch} : k \in 0..MaxRuns}

\* Titles around the 255 limit, in bytes and in characters
TitleInputs == StringsOf(Chars, {1, 127, 128, 254, 255, 256})

\* Contents around the 10000 limit, in bytes and in characters
ContentInputs ==
  StringsOf({"a", "NL", "E_ACUTE", "ROCKET"}, {1, 2500, 2501, 5000, 5001, 10000, 10001})

\* POST bodies: a valid and an over-long title, a valid and an over-long content
PostTitles == {Str("a", 1), Str("a", 256)}
PostContents == {Str("", 0), Str("a", 10001)}

\* PATCH bodies: a title, a content with the flag set, a title and a
\* content; a valid title with an invalid content, and an invalid title
Opt(S) == {None} \cup {Some(x) : x \in S}
UpdateRequests ==
  {UpdateTodoRequest(Some(Str("b", 255)), None, None),
   UpdateTodoRequest(None, Some(Str("a", 10000)), Some(TRUE)),
   UpdateTodoRequest(Some(Str("b", 255)), Some(Str("a", 10000)), None),
   UpdateTodoRequest(Some(Str("b", 255)), Some(Str("a", 10001)), None),
   UpdateTodoRequest(Some(Str("a", 256)), None, None)}
Ids == 1..MaxIds

(***************************************************************************)
(* Specification of the HTTP service.                                      *)
(***************************************************************************)
NoCall ==
  [fn |-> "none", title |-> None, content |-> None, completed |-> None,
   result |-> Ok, before |-> Todo_new(Str("a", 1), Str("", 0), 0, 0), now |-> 0]

InitDomain ==
  /\ todo = Todo_new(Str("a", 1), Str("", 0), 0, 0)
  /\ call = NoCall

\* No request is being served, no call was made on the two repositories
NoAnswers ==
  [method |-> "none", mock |-> Answer(RepoErr(<<>>)), db |-> Answer(RepoErr(<<>>))]

InitDriver ==
  /\ inflight = [c \in Clients |-> Idle]
  /\ answers = NoAnswers

InitHttp ==
  /\ todos = <<>>
  /\ rows = {}
  /\ should_fail = FALSE
  /\ resp = Exchange("none", 0, NoRequest, 0, None, <<>>)
  /\ created = <<>>
  /\ deleted = {}

Init ==
  /\ steps = 0
  /\ clock = 0
  /\ next_id = 1
  /\ repo \in {"mock", "db"}
  /\ InitDomain
  /\ InitHttp
  /\ InitDriver

\* The connection a request arrives on: the first one that is free, so the
\* second one only while the first is serving a request
Arrives(c) == c = "c1" \/ inflight["c1"].pc # "idle"

\* A request arrives
Arrival ==
  \/ \E c \in Clients : Arrives(c) /\ get_todos(c)
  \/ \E c \in Clients, title \in PostTitles, content \in PostContents :
       Arrives(c) /\ create_todo(c, title, content)
  \/ \E c \in Clients, id \in Ids : Arrives(c) /\ get_todo(c, id)
  \/ \E c \in Clients, id \in Ids, request \in UpdateRequests :
       Arrives(c) /\ update_todo(c, id, request)
  \/ \E c \in Clients, id \in Ids : Arrives(c) /\ delete_todo(c, id)

\* The flag is set or cleared, time passes
Environment ==
  \/ \E fail \in BOOLEAN : set_should_fail(fail)
  \/ Tick

\* A task is resumed at its .await
Resume(callers) ==
  \/ \E c \in callers : Mock_check(c)
  \/ \E c \in callers : Mock_execute(c)
  \/ \E c \in callers : Db_execute(c)
  \/ \E c \in callers : Db_return(c)

Next ==
  \/ steps < MaxRequests /\ Arrival
  \/ steps < MaxRequests /\ Environment
  \/ Resume(Clients)

Spec == Init /\ [][Next]_vars

(***************************************************************************)
(* Specification of the router built by create_app_with_repository: any    *)
(* request is dispatched by its method and path to the handler of its      *)
(* route; a path with no route is answered 404 by the router, a route      *)
(* without the method 405.                                                 *)
(***************************************************************************)
SEE_OTHER == 303
METHOD_NOT_ALLOWED == 405

Methods == {"GET", "POST", "PATCH", "DELETE"}
Paths == {"/health", "/api/todos", "/api/todos/:id", "/swagger-ui",
          "/api-docs/openapi.json"}

\* The routes of create_app_with_repository: the handler of a method and path
Route(method, path) ==
  CASE path = "/health" /\ method = "GET" -> "health_check"
    [] path = "/api/todos" /\ method = "GET" -> "get_todos"
    [] path = "/api/todos" /\ method = "POST" -> "create_todo"
    [] path = "/api/todos/:id" /\ method = "GET" -> "get_todo"
    [] path = "/api/todos/:id" /\ method = "PATCH" -> "update_todo"
    [] path = "/api/todos/:id" /\ method = "DELETE" -> "delete_todo"
    [] OTHER -> IF path \in {"/health", "/api/todos", "/api/todos/:id"}
                THEN "method_not_allowed" ELSE "not_found"

\* GET /health: the text "OK"
health_check ==
  /\ Step
  /\ resp' = Exchange("health_check", 0, NoRequest, OK, Some("OK"), <<>>)
  /\ UNCHANGED <<clock, next_id, domainVars, driverVars,
                 repo, todos, rows, should_fail, created, deleted>>

\* The router's answer to a request no handler serves: an empty response
fallback(method, path) ==
  /\ Step
  /\ resp' = [method |-> method, path |-> path] @@
               Exchange("fallback", 0, NoRequest,
                        IF Route(method, path) = "not_found" THEN NOT_FOUND
                        ELSE METHOD_NOT_ALLOWED, None, <<>>)
  /\ UNCHANGED <<clock, next_id, domainVars, driverVars,
                 repo, todos, rows, should_fail, created, deleted>>

\* Router::call: one request on connection c, up to the first .await of its
\* handler
Serve(c, method, path) ==
  LET h == Route(method, path) IN
    \/ h = "health_check" /\ health_check
    \/ h = "get_todos" /\ get_todos(c)
    \/ h = "create_todo" /\ \E title \in PostTitles, content \in PostContents :
                               create_todo(c, title, content)
    \/ h = "get_todo" /\ \E id \in Ids : get_todo(c, id)
    \/ h = "update_todo" /\ \E id \in Ids, request \in UpdateRequests :
                               update_todo(c, id, request)
    \/ h = "delete_todo" /\ \E id \in Ids : delete_todo(c, id)
    \/ h \in {"not_found", "method_not_allowed"} /\ fallback(method, path)

NextRouter ==
  \/ steps < MaxRouted /\ \E c \in Clients, method \in Methods, path \in Paths :
                             Arrives(c) /\ Serve(c, method, path)
  \/ steps < MaxRouted /\ Environment
  \/ Resume(Clients)

SpecRouter == Init /\ [][NextRouter]_vars

\* The method and path of an exchange, and the content type of its response
MethodOf(x) ==
  CASE x.op = "fallback" -> x.method
    [] x.op = "create_todo" -> "POST"
    [] x.op = "update_todo" -> "PATCH"
    [] x.op = "delete_todo" -> "DELETE"
    [] OTHER -> "GET"
PathOf(x) ==
  CASE x.op = "fallback" -> x.path
    [] x.op = "health_check" -> "/health"
    [] x.op \in {"get_todos", "create_todo"} -> "/api/todos"
    [] OTHER -> "/api/todos/:id"
ContentType(x) ==
  IF x.op = "health_check" THEN "text/plain; charset=utf-8"
  ELSE IF IsSome(x.body) THEN "application/json"
  ELSE "none"

(***************************************************************************)
(* Specification of the validators: Todo::validate_title and               *)
(* Todo::validate_content applied to the sample titles and contents.       *)
(***************************************************************************)
Call(fn, title, content, completed, result) ==
  [fn |-> fn, title |-> title, content |-> content, completed |-> completed,
   result |-> result, before |-> todo, now |-> clock]

ValidateTitle(title) ==
  /\ call' = Call("validate_title", Some(title), None, None, validate_title(title))
  /\ UNCHANGED <<steps, clock, next_id, todo, httpVars, driverVars>>

ValidateContent(content) ==
  /\ call' = Call("validate_content", None, Some(content), None,
                  validate_content(content))
  /\ UNCHANGED <<steps, clock, next_id, todo, httpVars, driverVars>>

InitValidate ==
  /\ steps = 0
  /\ clock = 0
  /\ next_id = 1
  /\ repo = "mock"
  /\ InitDomain
  /\ InitHttp
  /\ InitDriver

NextValidate ==
  \/ \E title \in TitleInputs : ValidateTitle(title)
  \/ \E content \in ContentInputs : ValidateContent(content)

SpecValidate == InitValidate /\ [][NextValidate]_vars

(***************************************************************************)
(* Specification of the validating entry points: Todo::validate_title,     *)
(* CreateTodoRequest::validate, UpdateTodoRequest::validate and            *)
(* Todo::new_with_validation, on titles and contents that break several    *)
(* rules at once.                                                          *)
(***************************************************************************)
\* Titles: blank or not, over 255 bytes or not, with a newline or not
RuleTitles ==
  {Str("", 0), Str("SP", 1), Str("NL", 1), Str("SP", 256),
   Str("SP", 255) \o Str("NL", 1), Str("IDEO_SP", 86),
   Str("a", 1), Str("b", 255), Str("a", 256), Str("E_ACUTE", 128),
   Str("a", 1) \o Str("NL", 1), Str("a", 255) \o Str("NL", 1),
   Str("NL", 1) \o Str("a", 256)}
RuleContents == {Str("", 0), Str("NL", 10000), Str("a", 10001)}

ValidateCreateRequest(title, content) ==
  /\ call' = Call("CreateTodoRequest_validate", Some(title), Some(content), None,
                  CreateTodoRequest_validate(CreateTodoRequest(title, content)))
  /\ UNCHANGED <<steps, clock, next_id, todo, httpVars, driverVars>>

ValidateUpdateRequest(title, content, completed) ==
  /\ call' = Call("UpdateTodoRequest_validate", title, content, completed,
                  UpdateTodoRequest_validate(UpdateTodoRequest(title, content, completed)))
  /\ UNCHANGED <<steps, clock, next_id, todo, httpVars, driverVars>>

\* Todo::new_with_validation; only a todo that is built takes an id
NewWithValidation(title, content) ==
  LET r == new_with_validation(title, content, next_id, clock) IN
    /\ next_id <= MaxIds
    /\ call' = Call("new_with_validation", Some(title), Some(content), None, r.result)
    /\ todo' = IF r.result = Ok THEN Unwrap(r.todo) ELSE todo
    /\ next_id' = IF r.result = Ok THEN next_id + 1 ELSE next_id
    /\ UNCHANGED <<steps, clock, httpVars, driverVars>>

NextRules ==
  \/ \E title \in RuleTitles : ValidateTitle(title)
  \/ \E title \in RuleTitles, content \in RuleContents :
       ValidateCreateRequest(title, content)
  \/ \E title \in Opt(RuleTitles), content \in Opt(RuleContents), b \in Opt({TRUE}) :
       ValidateUpdateRequest(title, content, b)
  \/ \E title \in RuleTitles, content \in RuleContents : NewWithValidation(title, content)
  \/ Tick

SpecRules == InitValidate /\ [][NextRules]_vars

(***************************************************************************)
(* Specification of one Todo value under its mutation methods.             *)
(***************************************************************************)
\* Arguments of the method calls: valid and invalid titles and contents
ArgTitles == {Str("a", 1), Str("b", 255), Str("", 0), Str("a", 256)}
ArgContents == {Str("", 0), Str("a", 10000), Str("a", 10001)}

UpdateWithValidation(title, content, completed) ==
  LET r == update_with_validation(todo, title, content, completed, clock) IN
    /\ todo' = r.todo
    /\ call' = Call("update_with_validation", title, content, completed, r.result)
    /\ UNCHANGED <<steps, clock, next_id, httpVars, driverVars>>

UpdateTitle(title) ==
  /\ todo' = update_title(todo, title, clock)
  /\ call' = Call("update_title", Some(title), None, None, Ok)
  /\ UNCHANGED <<steps, clock, next_id, httpVars, driverVars>>

UpdateContent(content) ==
  /\ todo' = update_content(todo, content, clock)
  /\ call' = Call("update_content", None, Some(content), None, Ok)
  /\ UNCHANGED <<steps, clock, next_id, httpVars, driverVars>>

ToggleCompleted ==
  /\ todo' = toggle_completed(todo, clock)
  /\ call' = Call("toggle_completed", None, None, None, Ok)
  /\ UNCHANGED <<steps, clock, next_id, httpVars, driverVars>>

\* The receiver is built by Todo::new, which does not validate.
InitTodo ==
  /\ steps = 0
  /\ clock = 0
  /\ next_id = 2
  /\ repo = "mock"
  /\ \E t \in ArgTitles, c \in ArgContents :
       /\ todo = Todo_new(t, c, 1, 0)
       /\ call = [fn |-> "new", title |-> Some(t), content |-> Some(c),
                  completed |-> None, result |-> Ok, before |-> Todo_new(t, c, 1, 0),
                  now |-> 0]
  /\ InitHttp
  /\ InitDriver

NextTodo ==
  \/ \E t \in Opt(ArgTitles), c \in Opt(ArgContents), b \in Opt(BOOLEAN) :
       UpdateWithValidation(t, c, b)
  \/ \E t \in ArgTitles : UpdateTitle(t)
  \/ \E c \in ArgContents : UpdateContent(c)
  \/ ToggleCompleted
  \/ Tick

SpecTodo == InitTodo /\ [][NextTodo]_vars

(***************************************************************************)
(* Specification of the two repositories side by side: a MockTodoRepository*)
(* and a DatabaseTodoRepository, both empty at first, receive the same     *)
(* calls of the TodoRepositoryTrait methods, one call at a time, and read  *)
(* the same clock and the same failure flag: time passes and the flag is   *)
(* set at any moment, also while a call waits at an .await.  Todos are     *)
(* built by Todo::new, as the handlers build them, once for both.          *)
(***************************************************************************)
\* Arguments of the repository calls
RepoTitles == {Str("a", 1), Str("b", 255)}
RepoContents == {Str("", 0)}
RepoUpdates ==
  {UpdateTodoRequest(t, c, b) :
     t \in Opt({Str("b", 255)}), c \in Opt({Str("a", 10000)}), b \in Opt({TRUE})}

\* No call is in flight
Quiet == \A k \in DOMAIN inflight : inflight[k].pc = "idle"

\* The same call on both repositories, begun on each
Both(m, d) ==
  /\ Quiet
  /\ inflight' = [mock |-> m, db |-> d]

Both_create_todo(title, content) ==
  /\ Step
  /\ next_id <= MaxIds
  /\ LET t == Task("create_todo", next_id,
                   UpdateTodoRequest(Some(title), Some(content), None), "call", clock, 0)
     IN  Both(t, t)
  /\ next_id' = next_id + 1
  /\ UNCHANGED <<clock, domainVars, httpVars, answers>>

Both_get_all_todos ==
  /\ Step
  /\ LET t == Task("get_todos", 0, NoRequest, "call", 0, 0) IN Both(t, t)
  /\ UNCHANGED <<clock, next_id, domainVars, httpVars, answers>>

Both_get_todo_by_id(id) ==
  /\ Step
  /\ LET t == Task("get_todo", id, NoRequest, "call", 0, 0) IN Both(t, t)
  /\ UNCHANGED <<clock, next_id, domainVars, httpVars, answers>>

\* The database repository binds Utc::now() before its statement is awaited
Both_update_todo(id, updates) ==
  /\ Step
  /\ Both(Task("update_todo", id, updates, "call", 0, 0),
          Task("update_todo", id, updates, "call", clock, 0))
  /\ UNCHANGED <<clock, next_id, domainVars, httpVars, answers>>

Both_delete_todo(id) ==
  /\ Step
  /\ LET t == Task("delete_todo", id, NoRequest, "call", 0, 0) IN Both(t, t)
  /\ UNCHANGED <<clock, next_id, domainVars, httpVars, answers>>

InitRepos ==
  /\ steps = 0
  /\ clock = 0
  /\ next_id = 1
  /\ repo = "mock"
  /\ InitDomain
  /\ InitHttp
  /\ inflight = [mock |-> Idle, db |-> Idle]
  /\ answers = NoAnswers

\* A call is made on both repositories
BothCalled ==
  \/ \E t \in RepoTitles, c \in RepoContents : Both_create_todo(t, c)
  \/ Both_get_all_todos
  \/ \E id \in Ids : Both_get_todo_by_id(id)
  \/ \E id \in Ids, updates \in RepoUpdates : Both_update_todo(id, updates)
  \/ \E id \in Ids : Both_delete_todo(id)

NextRepos ==
  \/ steps < MaxSteps /\ BothCalled
  \/ steps < MaxSteps /\ Environment
  \/ Resume({"mock", "db"})

SpecRepos == InitRepos /\ [][NextRepos]_vars

(***************************************************************************)
(* Specification of the DatabaseTodoRepository alone, one call at a time.   *)
(* create_todo receives a todo whose id has no row, as Todo::new builds    *)
(* them with Uuid::now_v7().  Time passes and the pool starts or stops     *)
(* failing at any moment, also between the binding of the parameters and   *)
(* the statement.                                                          *)
(***************************************************************************)
\* create_todo(&todo) for a todo built now, up to the .await of the statement
DbCreate(id, title, content) ==
  /\ Step
  /\ Begin("db", Task("create_todo", id,
                      UpdateTodoRequest(Some(title), Some(content), None), "call", clock, 0))
  /\ UNCHANGED <<clock, next_id, domainVars, httpVars, answers>>

\* update_todo(id, &updates), up to the .await of the statement
DbUpdate(id, updates) ==
  /\ Step
  /\ Begin("db", Task("update_todo", id, updates, "call", clock, 0))
  /\ UNCHANGED <<clock, next_id, domainVars, httpVars, answers>>

\* delete_todo(id), up to the .await of the statement
DbDelete(id) ==
  /\ Step
  /\ Begin("db", Task("delete_todo", id, NoRequest, "call", 0, 0))
  /\ UNCHANGED <<clock, next_id, domainVars, httpVars, answers>>

\* get_all_todos(), up to the .await of the statement
DbGetAll ==
  /\ Step
  /\ Begin("db", Task("get_todos", 0, NoRequest, "call", 0, 0))
  /\ UNCHANGED <<clock, next_id, domainVars, httpVars, answers>>

InitDb ==
  /\ steps = 0
  /\ clock = 0
  /\ next_id = 1
  /\ repo = "db"
  /\ InitDomain
  /\ InitHttp
  /\ inflight = [db |-> Idle]
  /\ answers = NoAnswers

\* A call is made on the database repository
DbCalled ==
  \/ \E id \in Ids, t \in RepoTitles, c \in RepoContents :
       (\A r \in rows : r.id # id) /\ DbCreate(id, t, c)
  \/ \E id \in Ids, updates \in RepoUpdates : DbUpdate(id, updates)
  \/ \E id \in Ids : DbDelete(id)
  \/ DbGetAll

NextDb ==
  \/ steps < MaxSteps /\ DbCalled
  \/ steps < MaxSteps /\ Environment
  \/ Db_execute("db")
  \/ Db_return("db")

SpecDb == InitDb /\ [][NextDb]_vars

(***************************************************************************)
(* Specification of DatabaseTodoRepository::create_todo called with any    *)
(* Todo value, one call at a time: the id may already have a row.  The     *)
(* table is a set of rows, so a todo equal to a stored row in every column *)
(* is not passed.  The database fails or not at any moment.                *)
(***************************************************************************)
\* create_todo is called, with an id that has a row or with one that has none
DbCreateCalled ==
  \E id \in Ids, t \in RepoTitles, c \in RepoContents :
    /\ Todo_new(t, c, id, clock) \notin rows
    /\ DbCreate(id, t, c)

NextDbCreate ==
  \/ steps < MaxSteps /\ DbCreateCalled
  \/ steps < MaxSteps /\ Environment
  \/ Db_execute("db")
  \/ Db_return("db")

SpecDbCreate == InitDb /\ [][NextDbCreate]_vars

(***************************************************************************)
(* Specification of concurrent requests: each of two connections carries   *)
(* one PATCH or DELETE, the two are served at the same time, and `answers` *)
(* keeps what each was answered.  The store holds one todo per id at       *)
(* first, as after that many POSTs.                                        *)
(***************************************************************************)
\* The PATCH bodies of the concurrent requests: disjoint fields, the same
\* field with different values, and an invalid one
ConcurrentUpdates ==
  {UpdateTodoRequest(Some(Str("b", 255)), None, None),
   UpdateTodoRequest(Some(Str("b", 1)), None, None),
   UpdateTodoRequest(None, Some(Str("a", 10000)), None),
   UpdateTodoRequest(None, None, Some(TRUE)),
   UpdateTodoRequest(Some(Str("a", 256)), None, None)}

\* The todo each id holds at first
InitialTodo(id) == Todo_new(Str("a", 1), Str("", 0), id, 0)

InitConcurrent ==
  /\ steps = 0
  /\ clock = 0
  /\ next_id = MaxIds + 1
  /\ repo \in {"mock", "db"}
  /\ InitDomain
  /\ todos = IF repo = "mock" THEN [id \in Ids |-> InitialTodo(id)] ELSE <<>>
  /\ rows = IF repo = "db" THEN {InitialTodo(id) : id \in Ids} ELSE {}
  /\ should_fail = FALSE
  /\ resp = Exchange("none", 0, NoRequest, 0, None, <<>>)
  /\ created = <<>>
  /\ deleted = {}
  /\ inflight = [c \in Clients |-> Idle]
  /\ answers = [c \in Clients |-> Idle]

\* A connection has sent no request yet
Unused(c) == answers[c].pc = "idle" /\ inflight[c].pc = "idle"

NextConcurrent ==
  \/ \E c \in Clients, id \in Ids, request \in ConcurrentUpdates :
       Unused(c) /\ update_todo(c, id, request)
  \/ \E c \in Clients, id \in Ids : Unused(c) /\ delete_todo(c, id)
  \/ steps < MaxSteps /\ Environment
  \/ Resume(Clients)

SpecConcurrent == InitConcurrent /\ [][NextConcurrent]_vars

(***************************************************************************)
(* Claims.                                                                 *)
(***************************************************************************)

\* C1: Todo::validate_title returns Ok for a title exactly when the title is
\* non-blank after trimming, is at most 255 CHARACTERS long and contains no
\* newline; a 255-character title is accepted, a 256-character one rejected.
\* The code measures the title in bytes (str::len), so this fails for a title
\* of at most 255 characters whose UTF-8 encoding is longer than 255 bytes.
C1_TitleOkIffCharacterRules ==
  call.fn = "validate_title" =>
    LET title == Unwrap(call.title) IN
      (call.result = Ok) <=>
        /\ ~IsEmpty(Trim(title))
        /\ CharCount(title) <= 255
        /\ ~Contains(title, "NL")

\* C2: Todo::validate_content returns Ok for a content exactly when it is at
\* most 10000 CHARACTERS long, whatever characters it holds, and a rejected
\* content gets "Content cannot exceed 10000 characters".
\* The code measures the content in bytes, so accented letters and emojis
\* count for 2 and 4: this fails for 5001 accented letters.
C2_ContentOkIffAtMost10000Characters ==
  call.fn = "validate_content" =>
    LET content == Unwrap(call.content) IN
      /\ (call.result = Ok) <=> (CharCount(content) <= 10000)
      /\ call.result # Ok => call.result = ErrContentTooLong

(***************************************************************************)
(* Vocabulary of the claims about the HTTP service.                        *)
(***************************************************************************)
\* The stored todo with this id, and whether there is one
HasId(id) == \E t \in StoredTodos : t.id = id
ById(id) == CHOOSE t \in StoredTodos : t.id = id

\* The step in which the repository call of task c takes effect: the mock
\* returns at its flag or runs under its lock, the database runs the statement
Executes(c) ==
  /\ inflight[c].pc \in {"call", "lock"}
  /\ inflight'[c].pc \in {"reply", "idle"}

\* The step in which the request or call of task c is answered
Answered(c) == inflight[c].pc # "idle" /\ inflight'[c].pc = "idle"

\* A step that answers a request as it arrives, with no repository call
Refused == steps' # steps /\ UNCHANGED <<inflight, clock, should_fail>>

\* The result the repository call of task c has, in the step it takes effect:
\* the one its statement leaves for the task, or the one the handler or the
\* caller receives in the same step
Returns(c) ==
  IF inflight'[c].pc = "reply" THEN inflight'[c].result
  ELSE IF c \in Clients THEN [ok |-> resp'.calls[1].ok, val |-> resp'.calls[1].val]
  ELSE answers'[c]

\* The request or call of task c is answered with the result its statement
\* left
HandedOver(c) ==
  inflight[c].pc = "reply" =>
    IF c \in Clients
    THEN resp'.calls = <<RepoCall(resp'.calls[1].method, inflight[c].result)>>
    ELSE answers'[c] = inflight[c].result

\* The result r of a GET, PATCH or DELETE of one id found no todo
Miss(op, r) == r.ok /\ (IF op = "delete_todo" THEN ~r.val ELSE r.val = None)

\* How far every request and call has come: a step that leaves it unchanged
\* neither refuses a request nor moves a task
served == <<steps, [c \in DOMAIN inflight |-> inflight[c].pc]>>

\* The handlers of /api/todos/{id}
IdOps == {"get_todo", "update_todo", "delete_todo"}

\* The exchange x carried a body that fails validation: an invalid title or
\* an invalid content
InvalidBody(x) ==
  /\ x.op \in {"create_todo", "update_todo"}
  /\ \/ IsSome(x.request.title) /\ validate_title(Unwrap(x.request.title)) # Ok
     \/ IsSome(x.request.content) /\ validate_content(Unwrap(x.request.content)) # Ok

\* The exchange x made a repository call that failed
RepoFailed(x) == \E i \in 1..Len(x.calls) : ~x.calls[i].ok

\* The data of a 200 response
Data(x) == Unwrap(Unwrap(x.body).data)

\* C3 as stated: a POST /api/todos with a valid title and content answers 200
\* with a todo holding the request's title and content, completed = false and
\* created_at = updated_at; from then on GET /api/todos/{id} answers 200 with
\* that same todo, until a PATCH or DELETE for the id succeeds.
\* Fails when the repository call fails: the handlers answer 500.
C3_CreateThenGet_AsStated ==
  /\ []((resp.op = "create_todo" /\ ~InvalidBody(resp)) =>
          /\ resp.status = OK
          /\ Data(resp).title = Unwrap(resp.request.title)
          /\ Data(resp).content = Unwrap(resp.request.content)
          /\ Data(resp).completed = FALSE
          /\ Data(resp).created_at = Data(resp).updated_at)
  /\ [][\A c \in Clients :
         (/\ Answered(c) /\ inflight[c].op = "get_todo"
          /\ inflight[c].hist = "created" /\ inflight[c].id \in DOMAIN created)
         => /\ resp'.status = OK
            /\ Data(resp') = created[inflight[c].id]]_vars

\* C3 amended: the same, whenever the repository call of the request succeeds;
\* when it fails the POST or GET answers 500.  "From then on" are the GETs
\* sent after the POST was answered, "until a PATCH or DELETE succeeds" until
\* one has taken effect in the repository: `created` holds the todo from the
\* one moment to the other.
C3_CreateThenGet ==
  /\ []((resp.op = "create_todo" /\ ~InvalidBody(resp)) =>
          IF RepoFailed(resp) THEN resp.status = INTERNAL_SERVER_ERROR
          ELSE /\ resp.status = OK
               /\ resp.body = Some(ApiResponse_success(Data(resp)))
               /\ Data(resp).title = Unwrap(resp.request.title)
               /\ Data(resp).content = Unwrap(resp.request.content)
               /\ Data(resp).completed = FALSE
               /\ Data(resp).created_at = Data(resp).updated_at)
  /\ [](\A id \in DOMAIN created : created[id] \in StoredTodos /\ created[id].id = id)
  /\ [][\A c \in Clients :
         /\ (Answered(c) /\ inflight[c].op = "create_todo" /\ resp'.status = OK
               /\ Data(resp') \in StoredTodos')
              => /\ Data(resp').id \in DOMAIN created'
                 /\ created'[Data(resp').id] = Data(resp')
         /\ (/\ Answered(c) /\ inflight[c].op = "get_todo"
              /\ inflight[c].hist = "created" /\ inflight[c].id \in DOMAIN created)
             => IF RepoFailed(resp') THEN resp'.status = INTERNAL_SERVER_ERROR
                ELSE /\ resp'.status = OK
                     /\ resp'.body = Some(ApiResponse_success(created[inflight[c].id]))]_vars

\* C3 witness: a GET answers 200 for a todo as it was created, after another
\* todo was created and modified.
C3_Witness ==
  /\ resp.op = "get_todo" /\ resp.status = OK
  /\ resp.id \in DOMAIN created
  /\ \E t \in StoredTodos : t.id \notin DOMAIN created /\ t.title # created[resp.id].title

\* C4: a POST or PATCH whose body fails validation answers 400, the
\* repository is never called, and the stored todos are exactly what they
\* were before the request.
C4_InvalidBodyIs400AndTouchesNothing ==
  /\ [](InvalidBody(resp) => resp.status = BAD_REQUEST /\ resp.calls = <<>>)
  /\ [][(Refused /\ InvalidBody(resp')) => UNCHANGED <<todos, rows>>]_vars
  /\ [][\A c \in Clients :
         Answered(c) => ~InvalidBody(resp') /\ resp'.calls # <<>>]_vars

\* C4 witness: a PATCH of a stored todo with a valid title and an invalid
\* content was answered 400.
C4_Witness ==
  /\ resp.op = "update_todo" /\ resp.status = BAD_REQUEST
  /\ HasId(resp.id)
  /\ IsSome(resp.request.title) /\ validate_title(Unwrap(resp.request.title)) = Ok
  /\ ById(resp.id).title # Unwrap(resp.request.title)

\* A GET, PATCH or DELETE on /api/todos/{id}
OnId(x) == x.op \in {"get_todo", "update_todo", "delete_todo"}

\* C5 as stated: once DELETE has answered 204 for an id, every later GET,
\* PATCH or DELETE for that id answers 404.
\* Fails for a PATCH with an invalid body (400) and when the repository call
\* fails (500).
C5_DeletedStays404_AsStated ==
  /\ [][(Refused /\ OnId(resp') /\ resp'.id \in deleted)
          => resp'.status = NOT_FOUND]_vars
  /\ [][\A c \in Clients :
         (Answered(c) /\ inflight[c].op \in IdOps /\ inflight[c].hist = "deleted")
         => resp'.status = NOT_FOUND]_vars

\* C5 amended: once DELETE has answered 204 for an id, every later GET, PATCH
\* or DELETE for that id answers 404, except that a PATCH with an invalid body
\* answers 400 and a request whose repository call fails answers 500; a
\* deleted id is never stored again.  A later request is one sent after the
\* 204 was answered.
C5_DeletedStays404 ==
  /\ [](\A id \in deleted : ~HasId(id))
  /\ [][(Refused /\ OnId(resp') /\ resp'.id \in deleted)
          => resp'.status = BAD_REQUEST /\ InvalidBody(resp')]_vars
  /\ [][\A c \in Clients :
         (Answered(c) /\ inflight[c].op \in IdOps /\ inflight[c].hist = "deleted")
         => /\ resp'.id = inflight[c].id /\ resp'.id \in deleted
            /\ resp'.status = IF RepoFailed(resp') THEN INTERNAL_SERVER_ERROR
                               ELSE NOT_FOUND]_vars

\* C5 witness: a GET of a deleted id answers 404 while a todo created after
\* the deletion is stored.
C5_Witness ==
  /\ resp.op = "get_todo" /\ resp.status = NOT_FOUND
  /\ resp.id \in deleted
  /\ \E t \in StoredTodos : t.id > resp.id

\* C6 as stated: GET, PATCH with a valid body and DELETE for an id that is
\* not in the store each answer 404 and leave every stored todo unchanged.
\* Fails when the repository call fails: the handlers answer 500.
C6_UnknownIdIs404_AsStated ==
  [][\A c \in Clients :
     LET t == inflight[c] IN
       /\ (Executes(c) /\ t.op \in IdOps /\ ~HasId(t.id))
            => Miss(t.op, Returns(c)) /\ UNCHANGED <<todos, rows>>
       /\ (Answered(c) /\ t.op \in IdOps /\ Miss(t.op, resp'.calls[1]))
            => HandedOver(c) /\ resp'.status = NOT_FOUND]_served

\* C6 amended: they answer 404 when the repository call succeeds and 500 when
\* it fails, and leave every stored todo unchanged either way.  The id is not
\* in the store when the repository call takes effect: the call then finds
\* no todo or fails, and the request is answered by that result.
C6_UnknownIdIs404 ==
  [][\A c \in Clients :
     LET t == inflight[c] IN
       /\ (Executes(c) /\ t.op \in IdOps /\ ~HasId(t.id))
            => /\ Miss(t.op, Returns(c)) \/ ~Returns(c).ok
               /\ UNCHANGED <<todos, rows>>
       /\ (Answered(c) /\ t.op \in IdOps)
            => /\ HandedOver(c)
               /\ Miss(t.op, resp'.calls[1]) => resp'.status = NOT_FOUND
               /\ ~resp'.calls[1].ok => resp'.status = INTERNAL_SERVER_ERROR]_served

\* C6 witness: a DELETE of an id that is not stored answers 404 while another
\* todo is stored.
C6_Witness ==
  /\ resp.op = "delete_todo" /\ resp.status = NOT_FOUND
  /\ resp.id \notin deleted
  /\ StoredTodos # {}

\* C7: when the repository call fails, each of the five endpoints answers 500
\* (never 200, 204 or 404), and the stored todos are unchanged by the request.
C7_RepositoryFailureIs500 ==
  /\ [](RepoFailed(resp) => resp.status = INTERNAL_SERVER_ERROR)
  /\ [][\A c \in Clients :
         /\ (Executes(c) /\ ~Returns(c).ok) => UNCHANGED <<todos, rows>>
         /\ Answered(c) => HandedOver(c)
         /\ (Answered(c) /\ inflight[c].pc = "reply") => UNCHANGED <<todos, rows>>]_vars

\* C7 witness: a DELETE of a stored todo failed in the repository and was
\* answered 500.
C7_Witness ==
  /\ resp.op = "delete_todo" /\ RepoFailed(resp)
  /\ resp.status = INTERNAL_SERVER_ERROR
  /\ HasId(resp.id)

\* C8: every response of the five endpoints is wrapped in the envelope
\* {success, data, error}: success = true with data and no error on success,
\* success = false with error and no data on failure.
\* The handlers answer every failure, and the 204 of DELETE, with a bare status.
C8_EveryResponseIsAnEnvelope ==
  resp.op # "none" =>
    /\ IsSome(resp.body)
    /\ LET e == Unwrap(resp.body) IN
         IF resp.status \in {OK, NO_CONTENT}
         THEN e.success /\ IsSome(e.data) /\ ~IsSome(e.error)
         ELSE ~e.success /\ IsSome(e.error) /\ ~IsSome(e.data)

\* C9: a successful PATCH replaces exactly the fields present in the request
\* with the request's values and keeps every omitted one; it never changes
\* the todo's id or created_at, nor any other stored todo; the response holds
\* the todo as stored.  Both repositories (repo is either).
C9_PatchReplacesExactlyTheFieldsPresent ==
  [][\A c \in Clients : \A id \in {inflight[c].id} :
     LET t == inflight[c] IN
       /\ (/\ Executes(c) /\ t.op = "update_todo"
            /\ Returns(c).ok /\ IsSome(Returns(c).val)) =>
             LET r == t.request
                 old == ById(id)
                 new == ById(id)'
             IN  /\ HasId(id) /\ HasId(id)'
                 /\ new.title = IF IsSome(r.title) THEN Unwrap(r.title) ELSE old.title
                 /\ new.content = IF IsSome(r.content) THEN Unwrap(r.content)
                                   ELSE old.content
                 /\ new.completed = IF IsSome(r.completed) THEN Unwrap(r.completed)
                                     ELSE old.completed
                 /\ new.id = old.id
                 /\ new.created_at = old.created_at
                 /\ StoredTodos' \ {new} = StoredTodos \ {old}
                 /\ Len(todos') = Len(todos)
                 /\ Unwrap(Returns(c).val) = new
       /\ (Answered(c) /\ t.op = "update_todo") =>
             /\ HandedOver(c)
             /\ resp'.status = OK <=> (resp'.calls[1].ok /\ IsSome(resp'.calls[1].val))
             /\ resp'.status = OK => Data(resp') = Unwrap(resp'.calls[1].val)
             /\ t.pc = "reply" => UNCHANGED <<todos, rows>>]_vars

\* C9 witness: a PATCH carrying only a title was answered 200 for a todo with
\* a non-empty content and completed = true, while another todo is stored.
C9_Witness ==
  /\ resp.op = "update_todo" /\ resp.status = OK
  /\ IsSome(resp.request.title)
  /\ ~IsSome(resp.request.content) /\ ~IsSome(resp.request.completed)
  /\ HasId(resp.id)
  /\ ById(resp.id).content # <<>> /\ ById(resp.id).completed
  /\ \E t \in StoredTodos : t.id # resp.id

\* C10: Todo::update_with_validation is all-or-nothing.  It returns Err exactly
\* when a provided title or content is invalid, and then the todo is exactly
\* as before the call; when it returns Ok, each provided field holds the
\* argument, each omitted field its previous value, id and created_at are
\* unchanged and updated_at is the time of the call.
C10_UpdateWithValidationAllOrNothing ==
  call.fn = "update_with_validation" =>
    LET bad ==
          \/ IsSome(call.title) /\ validate_title(Unwrap(call.title)) # Ok
          \/ IsSome(call.content) /\ validate_content(Unwrap(call.content)) # Ok
    IN  /\ (call.result # Ok) <=> bad
        /\ call.result # Ok => todo = call.before
        /\ call.result = Ok =>
             /\ todo.title = IF IsSome(call.title) THEN Unwrap(call.title)
                              ELSE call.before.title
             /\ todo.content = IF IsSome(call.content) THEN Unwrap(call.content)
                                ELSE call.before.content
             /\ todo.completed = IF IsSome(call.completed) THEN Unwrap(call.completed)
                                  ELSE call.before.completed
             /\ todo.id = call.before.id
             /\ todo.created_at = call.before.created_at
             /\ todo.updated_at = call.now

\* C10 witness: a call with a valid title, a completed flag and an invalid
\* content returned Err, on a todo whose title and flag differ from the arguments.
C10_Witness ==
  /\ call.fn = "update_with_validation"
  /\ call.result = ErrContentTooLong
  /\ IsSome(call.title) /\ Unwrap(call.title) # call.before.title
  /\ IsSome(call.completed) /\ Unwrap(call.completed) # call.before.completed
  /\ call.before.updated_at < call.now

\* C11: Todo::update_title, Todo::update_content and Todo::toggle_completed
\* each change only the field they name (to the argument; the flag to its
\* negation) and updated_at (to the time of the call): id, created_at and the
\* other two fields are as before the call; updated_at is never earlier than
\* created_at; and two consecutive toggle_completed calls restore the
\* completed value the todo had before the first.
C11_SettersChangeOnlyTheirField ==
  /\ [](/\ todo.updated_at >= todo.created_at
        /\ call.fn = "update_title" =>
             todo = [call.before EXCEPT !.title = Unwrap(call.title),
                                        !.updated_at = call.now]
        /\ call.fn = "update_content" =>
             todo = [call.before EXCEPT !.content = Unwrap(call.content),
                                        !.updated_at = call.now]
        /\ call.fn = "toggle_completed" =>
             todo = [call.before EXCEPT !.completed = ~call.before.completed,
                                        !.updated_at = call.now])
  /\ [][(call.fn = "toggle_completed" /\ call'.fn = "toggle_completed"
          /\ call'.before = todo /\ todo' # todo)
           => todo'.completed = call.before.completed]_vars

\* C11 witness: toggle_completed was called, at a later time than the last
\* change, on a todo whose flag was set and whose title and content had been
\* replaced; the flag is now cleared.
C11_Witness ==
  /\ call.fn = "toggle_completed"
  /\ call.before.completed /\ ~todo.completed
  /\ call.before.updated_at < call.now
  /\ todo.created_at < todo.updated_at
  /\ todo.title = Str("b", 255) /\ todo.content = Str("a", 10000)

\* A todo without the time of its last update
Timeless(t) == [t EXCEPT !.updated_at = 0]

\* C12: the in-memory repository and the database repository are
\* interchangeable: from the same initial contents and under the same calls
\* of create_todo, get_all_todos, get_todo_by_id, update_todo and delete_todo
\* they return the same result at every step, the order of the list of
\* get_all_todos included.
\* MockTodoRepository::get_all_todos returns the Vec in insertion order, the
\* database ORDER BY created_at DESC: the lists differ from two todos on.
\* The results are compared when both repositories have returned Ok from the
\* call and hold the same todos, and up to updated_at, which each repository
\* reads at its own moment; those of delete_todo are left out, the state
\* after a call not telling whether the two held the same todos before it.
C12_RepositoriesAnswerAlike ==
  (/\ Quiet
   /\ answers.method \in {"create_todo", "get_all_todos", "get_todo_by_id", "update_todo"}
   /\ answers.mock.ok /\ answers.db.ok
   /\ {Timeless(todos[i]) : i \in 1..Len(todos)} = {Timeless(r) : r \in rows})
  => IF answers.method = "create_todo"
     THEN Timeless(answers.mock.val) = Timeless(answers.db.val)
     ELSE /\ Len(answers.mock.val) = Len(answers.db.val)
          /\ \A i \in 1..Len(answers.mock.val) :
               Timeless(answers.mock.val[i]) = Timeless(answers.db.val[i])

\* C13: creating a todo in the relational store is an upsert.  When
\* create_todo is called (the database answering) with an id that already
\* has a row, the call succeeds and leaves exactly one row for that id,
\* holding the new values; when the id has no row, the row is inserted.
\* The statement is a plain INSERT: the row of the id is not replaced.  The
\* new row is added beside it, or the database rejects the statement and the
\* call fails.
C13_DbCreateIsUpsert_AsStated ==
  [][(Executes("db") /\ inflight.db.op = "create_todo" /\ ~should_fail) =>
       LET t == TodoOf(inflight.db) IN
         /\ Returns("db") = Answer(RepoOk(t, rows'))
         /\ {r \in rows' : r.id = t.id} = {t}
         /\ {r \in rows' : r.id # t.id} = {r \in rows : r.id # t.id}]_served

\* C14: the router built by create_app_with_repository serves the API
\* documentation, for any repository: GET /api-docs/openapi.json answers 200
\* with a JSON content type and GET /swagger-ui answers 200 or 303.
\* The router has no route for either path: both are answered 404.
C14_DocumentationIsServed ==
  (resp.op # "none" /\ MethodOf(resp) = "GET") =>
    /\ PathOf(resp) = "/api-docs/openapi.json" =>
         resp.status = OK /\ ContentType(resp) = "application/json"
    /\ PathOf(resp) = "/swagger-ui" => resp.status \in {OK, SEE_OTHER}

\* C15: after any sequence of requests, served one after the other or at the
\* same time, no two stored todos share an id.  The id Todo::new gives a todo
\* differs from every id built before it (stored, deleted, refused by the
\* repository or still on its way to it), so the store, the Vec of the mock
\* as the table of the database, holds at most one todo per id.
C15_StoredIdsAreUnique ==
  /\ [](/\ \A i, j \in 1..Len(todos) : i # j => todos[i].id # todos[j].id
        /\ \A r, q \in rows : r.id = q.id => r = q
        /\ \A t \in StoredTodos : t.id < next_id
        /\ \A c \in Clients :
             (inflight[c].op = "create_todo" /\ inflight[c].pc \in {"call", "lock"}) =>
               /\ inflight[c].id < next_id
               /\ ~HasId(inflight[c].id)
               /\ inflight[c].id \notin deleted
               /\ \A d \in Clients \ {c} : inflight[d].op = "create_todo" =>
                                               inflight[d].id # inflight[c].id)
  /\ [][next_id' # next_id =>
         \E c \in Clients :
           /\ inflight'[c].op = "create_todo" /\ inflight'[c].pc = "call"
           /\ inflight'[c].id = next_id
           /\ next_id' > next_id]_vars

\* C15 witness: two POSTs were served at the same time by the mock; the todo
\* built first, at an earlier time, was pushed last, and the Vec holds the
\* two with the later id first.
C15_Witness ==
  /\ repo = "mock" /\ Len(todos) = 2
  /\ todos[1].id > todos[2].id
  /\ todos[1].created_at > todos[2].created_at
  /\ resp.op = "create_todo" /\ resp.status = OK /\ Data(resp) = todos[2]

\* A title is blank when it holds white space only; it is over-long when
\* longer than 255 as validate_title measures it, in bytes (see C1).
Blank(title) == \A i \in 1..Len(title) : IsWhitespace(title[i].ch)
OverLong(title) == StrLen(title) > 255

\* C16: validation reports the first failing check in a fixed order.  A blank
\* title yields "Title cannot be empty" even when it is also over-long or
\* holds a newline; a non-blank over-long title yields "Title cannot exceed
\* 255 characters" even when it holds a newline; "Title cannot contain
\* newlines" is returned only otherwise; and CreateTodoRequest::validate,
\* UpdateTodoRequest::validate and Todo::new_with_validation report the error
\* of the title in preference to that of the content.
C16_FirstFailingCheckIsReported ==
  LET title == Unwrap(call.title)
      content == Unwrap(call.content)
  IN  /\ (call.fn = "validate_title" /\ Blank(title)) => call.result = ErrTitleEmpty
      /\ (call.fn = "validate_title" /\ ~Blank(title) /\ OverLong(title)) =>
           call.result = ErrTitleTooLong
      /\ call.fn = "validate_title" =>
           (call.result = ErrTitleNewline <=>
              ~Blank(title) /\ ~OverLong(title) /\ Contains(title, "NL"))
      /\ call.fn \in {"CreateTodoRequest_validate", "UpdateTodoRequest_validate",
                      "new_with_validation"} =>
           /\ (IsSome(call.title) /\ Blank(title)) => call.result = ErrTitleEmpty
           /\ (IsSome(call.title) /\ ~Blank(title) /\ OverLong(title)) =>
                call.result = ErrTitleTooLong
           /\ (IsSome(call.title) /\ ~Blank(title) /\ ~OverLong(title)
                /\ Contains(title, "NL")) => call.result = ErrTitleNewline
           /\ call.result = ErrContentTooLong =>
                /\ IsSome(call.content) /\ StrLen(content) > 10000
                /\ IsSome(call.title) =>
                     ~Blank(title) /\ ~OverLong(title) /\ ~Contains(title, "NL")

\* C16 witness: Todo::new_with_validation was called with a title that is
\* blank, over-long and holds a newline and a content that is too long, and
\* returned "Title cannot be empty".
C16_Witness ==
  /\ call.fn = "new_with_validation"
  /\ Blank(Unwrap(call.title)) /\ OverLong(Unwrap(call.title))
  /\ Contains(Unwrap(call.title), "NL")
  /\ StrLen(Unwrap(call.content)) > 10000
  /\ call.result = ErrTitleEmpty

(***************************************************************************)
(* Vocabulary of the claims about concurrent requests.                     *)
(***************************************************************************)
\* One update applied to a todo: the fields of the request replace the
\* todo's, updated_at becomes the time the request read
Applied(t, task) ==
  [t EXCEPT !.title = IF IsSome(task.request.title)
                      THEN Unwrap(task.request.title) ELSE @,
            !.content = IF IsSome(task.request.content)
                        THEN Unwrap(task.request.content) ELSE @,
            !.completed = IF IsSome(task.request.completed)
                          THEN Unwrap(task.request.completed) ELSE @,
            !.updated_at = task.now]

\* The todos that applying the updates of the clients in S to t, one after
\* the other in some order, can give
RECURSIVE Serial(_, _)
Serial(t, S) ==
  IF S = {} THEN {t}
  ELSE UNION {Serial(Applied(t, answers[c]), S \ {c}) : c \in S}

\* Every request has been answered
AllDone == \A c \in Clients : answers[c].pc = "done"

\* The clients whose request on id was a PATCH answered 200, or a DELETE
\* answered with the status
Patched(id) ==
  {c \in Clients : /\ answers[c].op = "update_todo" /\ answers[c].id = id
                   /\ answers[c].status = OK}
Deleting(id, status) ==
  {c \in Clients : /\ answers[c].op = "delete_todo" /\ answers[c].id = id
                   /\ answers[c].status = status}

\* C17: an update of one todo is atomic, in both repositories.  When the
\* concurrent PATCH requests for an id have been answered (and none deleted
\* the todo), the stored todo is the result of applying those answered 200
\* one after the other in some order, each with the time it read: two
\* PATCHes of disjoint fields both take effect, and a PATCH answered 400 or
\* 500 has none.
C17_ConcurrentPatchesAreSerializable ==
  \A id \in Ids :
    (AllDone /\ Deleting(id, NO_CONTENT) = {}) =>
      /\ HasId(id)
      /\ ById(id) \in Serial(InitialTodo(id), Patched(id))
      /\ \A c \in Patched(id) :
           /\ (IsSome(answers[c].request.content)
                /\ \A d \in Patched(id) \ {c} : ~IsSome(answers[d].request.content))
                => ById(id).content = Unwrap(answers[c].request.content)
           /\ (IsSome(answers[c].request.title)
                /\ \A d \in Patched(id) \ {c} : ~IsSome(answers[d].request.title))
                => ById(id).title = Unwrap(answers[c].request.title)

\* C17 witness: two PATCHes of the same todo overlapped in the database
\* repository, one of the title and one of the content: the first to begin
\* was the last to run, and both fields are stored.
C17_Witness ==
  /\ repo = "db" /\ AllDone
  /\ Patched(answers["c1"].id) = Clients
  /\ answers["c1"].now < answers["c2"].now
  /\ IsSome(answers["c1"].request.title) /\ IsSome(answers["c2"].request.content)
  /\ LET t == ById(answers["c1"].id) IN
       /\ t.updated_at = answers["c1"].now
       /\ t.title = Unwrap(answers["c1"].request.title)
       /\ t.content = Unwrap(answers["c2"].request.content)

\* C18: when two DELETE requests for the same stored id run concurrently
\* and the repository does not fail, exactly one answers 204 and the other
\* 404, the todo is gone and no other stored todo is removed.
C18_OneConcurrentDeleteWins ==
  \A id \in Ids :
    (/\ AllDone
     /\ \A c \in Clients : answers[c].op = "delete_todo" /\ answers[c].id = id
     /\ Deleting(id, INTERNAL_SERVER_ERROR) = {})
    => /\ Cardinality(Deleting(id, NO_CONTENT)) = 1
       /\ Cardinality(Deleting(id, NOT_FOUND)) = 1
       /\ StoredTodos = {InitialTodo(j) : j \in Ids \ {id}}
       /\ repo = "mock" => Len(todos) = Cardinality(StoredTodos)

\* C18 witness: two DELETEs of the first todo of the mock's Vec were
\* answered, the one that ran first (at an earlier time) with 204, the other
\* with 404.
C18_Witness ==
  /\ repo = "mock" /\ AllDone
  /\ Deleting(1, NO_CONTENT) = {"c2"} /\ Deleting(1, NOT_FOUND) = {"c1"}
  /\ answers["c2"].now < answers["c1"].now
  /\ StoredTodos # {}

\* C19: PATCH /api/todos/{id} validates the body before it touches the
\* repository.  A PATCH with an invalid title or content answers 400, not
\* 404, when the id is not stored, and 400, not 500, when the repository is
\* failing; the repository is not called.
C19_PatchValidatesBeforeTheRepository ==
  [][(/\ (Refused \/ \E c \in Clients : Answered(c))
      /\ resp'.op = "update_todo" /\ InvalidBody(resp')
      /\ (~HasId(resp'.id) \/ should_fail))
       => /\ resp'.status = BAD_REQUEST
          /\ resp'.status \notin {NOT_FOUND, INTERNAL_SERVER_ERROR}
          /\ resp'.calls = <<>>]_vars

\* C19 witness: a PATCH with a valid title and an invalid content, for an id
\* that was deleted, was answered 400 while the repository is failing.
C19_Witness ==
  /\ resp.op = "update_todo" /\ resp.status = BAD_REQUEST
  /\ resp.id \in deleted /\ ~HasId(resp.id)
  /\ should_fail
  /\ IsSome(resp.request.title) /\ validate_title(Unwrap(resp.request.title)) = Ok
  /\ IsSome(resp.request.content) /\ validate_content(Unwrap(resp.request.content)) # Ok

\* C20: starting from an empty store, after any sequence of POST, PATCH and
\* DELETE requests through the handlers, every stored todo passes
\* Todo::is_valid: its title passes validate_title and its content passes
\* validate_content.
C20_StoredTodosAreValid ==
  \A t \in StoredTodos :
    /\ is_valid(t) = Ok
    /\ validate_title(t.title) = Ok
    /\ validate_content(t.content) = Ok

\* C20 witness: a todo is stored whose title and content, set by a PATCH, are
\* exactly at the limits, and the last request, an invalid one, was refused.
C20_Witness ==
  /\ \E t \in StoredTodos :
       /\ StrLen(t.title) = MaxTitleLen /\ StrLen(t.content) = MaxContentLen
       /\ t.updated_at > t.created_at
  /\ InvalidBody(resp) /\ resp.status = BAD_REQUEST

\* The orders, as lists of ids, in which get_all_todos may return a table
ListOrders(table) ==
  {[i \in DOMAIN s |-> s[i].id] : s \in OrderByCreatedAtDesc(table)}

\* C21: DatabaseTodoRepository::get_all_todos returns every stored todo
\* exactly once, ordered by created_at from the newest to the oldest; an
\* update of a todo never changes its created_at, so it changes neither the
\* rows' places in that order nor the orders the list may be returned in.
C21_ListIsNewestFirst ==
  /\ [][(Executes("db") /\ inflight.db.op = "get_todos" /\ Returns("db").ok) =>
          LET list == Returns("db").val IN
            /\ rows' = rows
            /\ {list[i] : i \in DOMAIN list} = rows
            /\ Len(list) = Cardinality(rows)
            /\ \A i, j \in DOMAIN list : i # j => list[i].id # list[j].id
            /\ \A i \in 1..(Len(list) - 1) :
                 list[i].created_at >= list[i + 1].created_at]_vars
  /\ [][(Answered("db") /\ inflight.db.op = "get_todos") =>
          answers'.method = "get_all_todos" /\ answers'.db = inflight.db.result]_vars
  /\ [][(Executes("db") /\ inflight.db.op = "update_todo") =>
          /\ \A r \in rows' : \E q \in rows :
               q.id = r.id /\ q.created_at = r.created_at
          /\ ListOrders(rows') = ListOrders(rows)]_vars

\* C21 witness: the list holds two todos, the newer first; the older one was
\* updated after the newer one was created and is still last.
C21_Witness ==
  /\ answers.method = "get_all_todos" /\ answers.db.ok
  /\ Len(answers.db.val) = 2
  /\ answers.db.val[1].created_at > answers.db.val[2].created_at
  /\ answers.db.val[2].updated_at >= answers.db.val[1].created_at
  /\ answers.db.val[2].updated_at > answers.db.val[2].created_at
  /\ answers.db.val[2].title # answers.db.val[1].title

====
